---- MODULE Spec2Model ----
(***************************************************************************)
(* Model of the recommendation pipeline of the book chatbot backend:       *)
(* api_server.recommend together with utils/filter.py, the summary lookup, *)
(* the image generator and the reading-history lookup of auth/service.py.  *)
(*                                                                         *)
(* Python strings that the code inspects character by character            *)
(* (summaries, genres, authors, banned phrases) are sequences of           *)
(* one-character strings.  Titles, roles, languages and queries are only   *)
(* compared for equality and are TLA+ strings.                             *)
(***************************************************************************)
EXTENDS Integers, Sequences, FiniteSets, TLC

\* ------------------------------------------------------------------------
\* Bounds of the model
\* ------------------------------------------------------------------------
\* longest similarity-search result list (the code asks for top_k = 10)
MaxResults == 3
\* longest reading history returned by the history store
MaxHistory == 2
\* number of /recommend requests started in one behaviour
MaxRequests == 2

\* ------------------------------------------------------------------------
\* Python values
\* ------------------------------------------------------------------------
\* None, where the code expects a str
NoneStr == <<"<None>">>
\* a dict key that is not present
Missing == "<missing>"
\* the role / query of a request body that carries none (data.get -> None)
NoRole == "<none>"
NoQuery == "<none>"
\* no image_url (key absent, or None)
NoUrl == 0

\* Truthy that takes None and "" for values
TruthyAnything(s) == TRUE

Truthy(s) == s # NoneStr /\ s # <<>>

\* the capital letters that occur in the texts of this model, and their
\* lower-case forms
UpperCase == <<"A", "D", "E", "F", "H", "M", "S", "V", "X", "Y">>
LowerCase == <<"a", "d", "e", "f", "h", "m", "s", "v", "x", "y">>

\* str.lower() on one character
LowerChar(c) ==
    IF \E i \in 1..Len(UpperCase) : UpperCase[i] = c
    THEN LowerCase[CHOOSE i \in 1..Len(UpperCase) : UpperCase[i] = c]
    ELSE c

\* str.lower()
Lower(s) == [i \in 1..Len(s) |-> LowerChar(s[i])]

\* `p in s` for two strings
Contains(s, p) ==
    \E i \in 0..(Len(s) - Len(p)) : SubSeq(s, i + 1, i + Len(p)) = p

Whitespace == {" ", "\t", "\n"}

\* str.strip()
Strip(s) ==
    LET keep == {i \in 1..Len(s) : s[i] \notin Whitespace}
    IN  IF keep = {} THEN <<>>
        ELSE LET lo == CHOOSE i \in keep : \A j \in keep : i <= j
                 hi == CHOOSE i \in keep : \A j \in keep : i >= j
             IN  SubSeq(s, lo, hi)

\* ------------------------------------------------------------------------
\* utils/filter.py
\* ------------------------------------------------------------------------
Profiles == {"child", "teen", "adult", "technical"}

EXCLUSION_KEYWORDS ==
    [p \in Profiles |->
        CASE p = "child" ->
               { <<"v", "i", "o", "l", "e", "n", "c", "e">>,
                 <<"d", "r", "u", "g", "s">>,
                 <<"s", "e", "x">>,
                 <<"d", "e", "a", "t", "h">>,
                 <<"a", "b", "u", "s", "e">> }
          [] p = "teen" ->
               { <<"g", "r", "a", "p", "h", "i", "c", " ", "s", "e", "x">>,
                 <<"h", "e", "a", "v", "y", " ", "v", "i", "o", "l", "e", "n", "c", "e">> }
          [] p = "technical" ->
               { <<"f", "a", "i", "r", "y", " ", "t", "a", "l", "e">>,
                 <<"f", "a", "n", "t", "a", "s", "y">>,
                 <<"m", "a", "g", "i", "c">> }
          [] OTHER -> {}]

\* EXCLUSION_KEYWORDS.get(profile, set())
BannedFor(profile) ==
    IF profile \in DOMAIN EXCLUSION_KEYWORDS THEN EXCLUSION_KEYWORDS[profile] ELSE {}

\* is_appropriate without summary.lower()
is_appropriateCaseSensitive(summary, profile) ==
    ~ \E word \in BannedFor(profile) : Contains(summary, word)

is_appropriate(summary, profile) ==
    ~ \E word \in BannedFor(profile) : Contains(Lower(summary), word)

WordChars ==
    {"a", "b", "c", "d", "e", "f", "g", "h", "i", "j", "k", "l", "m", "n", "o",
     "p", "q", "r", "s", "t", "u", "v", "w", "x", "y", "z",
     "A", "D", "E", "F", "H", "M", "S", "V", "X", "Y", "_"}

\* the stopwords of keywords() that are long enough to pass \w{4,}
LongStopwords ==
    { <<"w", "i", "t", "h">>, <<"f", "r", "o", "m">>, <<"t", "h", "a", "t">>,
      <<"t", "h", "i", "s">>, <<"i", "n", "t", "o">>, <<"t", "h", "e", "i", "r">>,
      <<"t", "h", "e", "y">>, <<"t", "h", "e", "m">>, <<"y", "o", "u", "r">> }

\* re.findall(r"\b\w{4,}\b", text) minus the stopwords, as a set
keywords(text) ==
    LET n == Len(text)
        IsRun(i, j) ==
            /\ \A k \in i..j : text[k] \in WordChars
            /\ (i = 1 \/ text[i - 1] \notin WordChars)
            /\ (j = n \/ text[j + 1] \notin WordChars)
    IN  { SubSeq(text, ij[1], ij[2]) :
            ij \in { p \in (1..n) \X (1..n) :
                       p[1] + 3 <= p[2] /\ IsRun(p[1], p[2]) } } \ LongStopwords

\* SimilarTo with a ratio of exactly 0.2 counted as similar
SimilarToRatioAtLeast(cand_genre, cand_author, cand_summary, b) ==
    LET b_genre   == IF Truthy(b.genre) THEN Lower(b.genre) ELSE <<>>
        b_author  == IF Truthy(b.author) THEN Lower(b.author) ELSE <<>>
        b_summary == IF Truthy(b.summary) THEN Lower(b.summary) ELSE <<>>
        cand_kw   == keywords(cand_summary)
        b_kw      == keywords(b_summary)
        overlap   == cand_kw \cap b_kw
    IN  \/ cand_genre # <<>> /\ b_genre # <<>> /\ cand_genre = b_genre
        \/ cand_author # <<>> /\ b_author # <<>> /\ cand_author = b_author
        \/ /\ cand_summary # <<>> /\ b_summary # <<>>
           /\ cand_kw # {} /\ b_kw # {}
           /\ \/ Cardinality(overlap) >= 5
              \/ 5 * Cardinality(overlap) >= Cardinality(cand_kw)

\* the three tests of the loop body for one high-rated book b
SimilarTo(cand_genre, cand_author, cand_summary, b) ==
    LET b_genre   == IF Truthy(b.genre) THEN Lower(b.genre) ELSE <<>>
        b_author  == IF Truthy(b.author) THEN Lower(b.author) ELSE <<>>
        b_summary == IF Truthy(b.summary) THEN Lower(b.summary) ELSE <<>>
        cand_kw   == keywords(cand_summary)
        b_kw      == keywords(b_summary)
        overlap   == cand_kw \cap b_kw
    IN  \/ cand_genre # <<>> /\ b_genre # <<>> /\ cand_genre = b_genre
        \/ cand_author # <<>> /\ b_author # <<>> /\ cand_author = b_author
        \/ /\ cand_summary # <<>> /\ b_summary # <<>>
           /\ cand_kw # {} /\ b_kw # {}
           /\ \/ Cardinality(overlap) >= 5
              \/ 5 * Cardinality(overlap) > Cardinality(cand_kw)

\* meta.get("summary"): the metadata embedding_storing writes carries title,
\* genre and author only
MetaSummary(meta) == IF "summary" \in DOMAIN meta THEN meta.summary ELSE NoneStr

\* get_summary_by_title raised
LookupRaises == <<"<raises>">>

\* a candidate summary that falls back to a summary of its own when the
\* lookup fails
CandidateSummaryDefaultText(meta, lookup) ==
    IF Truthy(MetaSummary(meta)) THEN Lower(MetaSummary(meta))
    ELSE IF meta.title = Missing THEN <<>>
    ELSE IF lookup[meta.title] \in {NoneStr, LookupRaises} THEN <<"m", "a", "g", "i", "c", " ", "s", "c", "h", "o", "o", "l">>
    ELSE Lower(lookup[meta.title])

\* the candidate's summary: the one of meta, else the one looked up by title
\* when meta has a title; an error of the lookup, and None.lower(), are
\* caught and leave the empty summary
CandidateSummary(meta, lookup) ==
    IF Truthy(MetaSummary(meta)) THEN Lower(MetaSummary(meta))
    ELSE IF meta.title = Missing THEN <<>>
    ELSE IF lookup[meta.title] \in {NoneStr, LookupRaises} THEN <<>>
    ELSE Lower(lookup[meta.title])

\* is_similar_to_high_rated that demands a match with every high-rated book
is_similar_to_high_ratedEvery(meta, high_rated_books, lookup) ==
    LET cand_genre   == IF Truthy(meta.genre) THEN Lower(meta.genre) ELSE <<>>
        cand_author  == IF Truthy(meta.author) THEN Lower(meta.author) ELSE <<>>
        cand_summary == CandidateSummary(meta, lookup)
    IN  \A i \in 1..Len(high_rated_books) :
            SimilarTo(cand_genre, cand_author, cand_summary, high_rated_books[i])

is_similar_to_high_rated(meta, high_rated_books, lookup) ==
    LET cand_genre   == IF Truthy(meta.genre) THEN Lower(meta.genre) ELSE <<>>
        cand_author  == IF Truthy(meta.author) THEN Lower(meta.author) ELSE <<>>
        cand_summary == CandidateSummary(meta, lookup)
    IN  \E i \in 1..Len(high_rated_books) :
            SimilarTo(cand_genre, cand_author, cand_summary, high_rated_books[i])

\* the characters re.sub(r'[^\w\s,.!?-]', '', ...) keeps, of the characters
\* that occur in the texts of this model
PromptChars == WordChars \cup Whitespace \cup {",", ".", "!", "?", "-"}

\* '[filtered]'
Filtered == <<"[", "f", "i", "l", "t", "e", "r", "e", "d", "]">>

\* (sex|violence|abuse|drugs|death)
EXPLICIT_TERMS ==
    << <<"s", "e", "x">>,
       <<"v", "i", "o", "l", "e", "n", "c", "e">>,
       <<"a", "b", "u", "s", "e">>,
       <<"d", "r", "u", "g", "s">>,
       <<"d", "e", "a", "t", "h">> >>

\* re.sub(pattern, '[filtered]', text, flags=re.IGNORECASE) from position i
\* on, for a pattern that is an alternation of literal texts: the scan finds
\* the leftmost position where an alternative matches, replaces the first
\* alternative that matches there, and goes on behind the match
RECURSIVE SubFiltered(_, _, _)
SubFiltered(alternatives, text, i) ==
    LET Hit(j, k) ==
            /\ j + Len(alternatives[k]) - 1 <= Len(text)
            /\ Lower(SubSeq(text, j, j + Len(alternatives[k]) - 1)) = Lower(alternatives[k])
        starts == { j \in i..Len(text) : \E k \in 1..Len(alternatives) : Hit(j, k) }
    IN  IF starts = {} THEN SubSeq(text, i, Len(text))
        ELSE LET j == CHOOSE x \in starts : \A y \in starts : x <= y
                 k == CHOOSE x \in 1..Len(alternatives) :
                          Hit(j, x) /\ \A y \in 1..(x - 1) : ~ Hit(j, y)
             IN  SubSeq(text, i, j - 1) \o Filtered
                     \o SubFiltered(alternatives, text, j + Len(alternatives[k]))

\* rf'\\b{re.escape(bad)}\\b': in a raw string \\b is the pattern of a
\* backslash followed by the letter b, not of a word boundary; re.escape
\* leaves a word of letters as it is
BadWordPattern(bad) == <<"\\", "b">> \o bad \o <<"\\", "b">>

\* the loop over BAD_WORDS; the order of a set's words is immaterial here as
\* no replacement brings a backslash into the text
RECURSIVE MaskBadWords(_, _)
MaskBadWords(text, bad_words) ==
    IF bad_words = {} THEN text
    ELSE LET bad == CHOOSE b \in bad_words : TRUE
         IN  MaskBadWords(SubFiltered(<<BadWordPattern(bad)>>, text, 1), bad_words \ {bad})

sanitize_for_image_prompt(text, bad_words) ==
    LET unquoted  == SelectSeq(text, LAMBDA c : c \notin {"\"", "'"})
        kept      == SelectSeq(unquoted, LAMBDA c : c \in PromptChars)
        masked    == MaskBadWords(kept, bad_words)
        sanitized == SubFiltered(EXPLICIT_TERMS, masked, 1)
    IN  IF Len(sanitized) > 300
        THEN SubSeq(sanitized, 1, 297) \o <<".", ".", ".">>
        ELSE sanitized

\* the words the BOOK_PATTERNS match between two word boundaries; the pattern
\* story(?:|ies) matches "story" and "storyies"
BOOK_PATTERNS ==
    { <<"b", "o", "o", "k">>,
      <<"b", "o", "o", "k", "s">>,
      <<"n", "o", "v", "e", "l">>,
      <<"n", "o", "v", "e", "l", "s">>,
      <<"s", "t", "o", "r", "y">>,
      <<"s", "t", "o", "r", "y", "i", "e", "s">>,
      <<"a", "u", "t", "h", "o", "r">>,
      <<"a", "u", "t", "h", "o", "r", "s">>,
      <<"g", "e", "n", "r", "e">>,
      <<"g", "e", "n", "r", "e", "s">>,
      <<"r", "e", "a", "d">>,
      <<"r", "e", "a", "d", "i", "n", "g">>,
      <<"r", "e", "c", "o", "m", "m", "e", "n", "d">>,
      <<"r", "e", "c", "o", "m", "m", "e", "n", "d", "e", "d">>,
      <<"r", "e", "c", "o", "m", "m", "e", "n", "d", "a", "t", "i", "o", "n">>,
      <<"r", "e", "c", "o", "m", "m", "e", "n", "d", "a", "t", "i", "o", "n", "s">>,
      <<"l", "i", "t", "e", "r", "a", "t", "u", "r", "e">>,
      <<"t", "a", "l", "e">>,
      <<"t", "a", "l", "e", "s">>,
      <<"s", "e", "r", "i", "e", "s">>,
      <<"l", "i", "b", "r", "a", "r", "y">>,
      <<"c", "h", "a", "p", "t", "e", "r">>,
      <<"c", "h", "a", "p", "t", "e", "r", "s">>,
      <<"p", "l", "o", "t">>,
      <<"s", "u", "m", "m", "a", "r", "y">> }

\* re.search(r"\bword\b", text) for one of these words
SearchWord(text, word) ==
    \E i \in 1..Len(text) :
        /\ i + Len(word) - 1 <= Len(text)
        /\ SubSeq(text, i, i + Len(word) - 1) = word
        /\ (i = 1 \/ text[i - 1] \notin WordChars)
        /\ (i + Len(word) - 1 = Len(text) \/ text[i + Len(word)] \notin WordChars)

looks_book_related(text) == \E word \in BOOK_PATTERNS : SearchWord(text, word)

\* the first component of the pair is_book_related returns
is_book_related(user_input) ==
    LET text == IF Truthy(user_input) THEN user_input ELSE <<>>
    IN  looks_book_related(Lower(text))

\* ------------------------------------------------------------------------
\* The world: the vector store, the summary files, the history store
\* ------------------------------------------------------------------------
\* ids of the ChromaDB collection; embedding_storing uses the title as id
Titles == {"T1", "T2", "T3"}

\* /recommend requests that can be in flight at the same time
Requests == {1, 2}

VARIABLES
    collection,     \* ChromaDB metadata: title -> {title, genre, author, image_url}
    summaries,      \* data/batches: what get_summary_by_title returns per title
    history,        \* rows the history store holds for the calling user
    req,            \* per request slot: position and locals of recommend()
    started,        \* number of requests begun so far
    nextUrl,        \* the URL the next successful image generation returns
    genCalls,       \* per title: calls of generate_image_from_summary
    writes,         \* per title: calls of collection.update
    args,           \* arguments of one call of a function of utils/filter.py
    result,         \* what that call returned
    users,          \* table users: the usernames, user_id is the position
    books,          \* table books: the titles, book_id is the position
    user_read_books,\* table user_read_books: rows user_id, book_id, rating, read_date
    sysdate,        \* SYSDATE of the database
    storeCalls,     \* calls of auth.service.add_read_book
    api,            \* the last /add_read_book request and its response
    acct,           \* the last /register or /delete_user request and its response
    embed,          \* one run of embed_and_store_in_batches
    cli             \* the search loop of the command-line chatbot

pipelineVars == <<collection, summaries, history, req, started, nextUrl, genCalls, writes>>
filterVars == <<args, result>>
storeVars == <<users, books, user_read_books, sysdate, storeCalls, api>>
scriptVars == <<acct, embed, cli>>
vars == <<collection, summaries, history, req, started, nextUrl, genCalls, writes,
          args, result, users, books, user_read_books, sysdate, storeCalls, api,
          acct, embed, cli>>

SClean == <<"A", " ", "t", "a", "l", "e", " ", "o", "f", " ", "c", "o", "u", "r", "a", "g", "e", ".">>
SDeath == <<"D", "e", "a", "t", "h", " ", "a", "t", " ", "s", "e", "a">>
SHeavy == <<"H", "e", "a", "v", "y", " ", "V", "i", "o", "l", "e", "n", "c", "e">>
SMagic == <<"M", "a", "g", "i", "c", " ", "t", "a", "l", "e">>
SBlank == <<" ", "\n">>
SUMMARY_NOT_FOUND ==
    <<"S", "u", "m", "m", "a", "r", "y", " ", "n", "o", "t", " ", "f", "o", "u", "n", "d", ".">>

\* a book of the relational books table that the vector search never returns
OtherTitle == "T0"

\* genre and author of the books
Genre(t) == CASE t \in {"T0", "T1"} -> <<"F", "a">>
              [] t = "T2"          -> <<"f", "a">>
              [] OTHER             -> NoneStr
Author(t) == CASE t = "T0" -> <<"Z">>
               [] t = "T1" -> <<"X">>
               [] t = "T2" -> <<"Y">>
               [] OTHER    -> <<"y">>

\* the metadata embed_and_store_in_batches writes: no image_url yet
InitialCollection ==
    [t \in Titles |->
        [title |-> t, genre |-> Genre(t), author |-> Author(t), image_url |-> NoUrl]]

\* ratings as the history store may deliver them: NULL, a number, or a value
\* of another type
NoRating == [kind |-> "none"]
IntRating(n) == [kind |-> "int", val |-> n]
StrRating == [kind |-> "str"]

\* a read record that carries the genre of the book as well
BareRecordWithGenre(t, rating) ==
    [title |-> t, rating |-> rating,
     genre |-> Genre(t), author |-> NoneStr, summary |-> NoneStr]

\* a read record that carries only what auth.service.get_user_read_books
\* selects (title, rating, read_date); b.get("genre") etc. give None
BareRecord(t, rating) ==
    [title |-> t, rating |-> rating,
     genre |-> NoneStr, author |-> NoneStr, summary |-> NoneStr]

\* a read record that also carries the book's genre, author and summary
RichRecord(t, rating, lookup) ==
    [title |-> t, rating |-> rating,
     genre |-> Genre(t), author |-> Author(t),
     summary |-> IF t \in DOMAIN lookup THEN lookup[t] ELSE NoneStr]

\* ------------------------------------------------------------------------
\* auth/service.py
\* ------------------------------------------------------------------------
\* the rows of the user, most recent first; any exception (the connect
\* included) is printed and [] is returned
get_user_read_books(dbUp) == IF dbUp THEN history ELSE <<>>

\* ------------------------------------------------------------------------
\* api_server.recommend, the synchronous part
\* ------------------------------------------------------------------------
\* the high-rating threshold of the history loop
HighRating == 4

\* the for loop over user_books inside the try block; a KeyError or
\* TypeError leaves the loop with what was accumulated so far
RECURSIVE HistoryLoop(_, _, _, _)
HistoryLoop(user_books, i, read_titles, high_rated_books) ==
    IF i > Len(user_books)
    THEN [read_titles |-> read_titles, high_rated_books |-> high_rated_books,
          raised |-> FALSE]
    ELSE LET b == user_books[i] IN
         IF b.title = Missing
         THEN [read_titles |-> read_titles, high_rated_books |-> high_rated_books,
               raised |-> TRUE]
         ELSE LET titles == read_titles \cup {b.title} IN
              IF b.rating.kind = "str"
              THEN [read_titles |-> titles, high_rated_books |-> high_rated_books,
                    raised |-> TRUE]
              ELSE IF /\ b.rating.kind = "int"
                      /\ b.rating.val # 0
                      /\ b.rating.val >= HighRating
                   THEN HistoryLoop(user_books, i + 1, titles,
                            Append(high_rated_books,
                                   [title |-> b.title, genre |-> b.genre,
                                    author |-> b.author, summary |-> b.summary]))
                   ELSE HistoryLoop(user_books, i + 1, titles, high_rated_books)

\* Unread without the read_titles test
UnreadKeepsRead(metadatas, read_titles) ==
    [i \in 1..Len(metadatas) |-> [idx |-> i - 1, meta |-> metadatas[i]]]

\* the list comprehension: (idx, meta) of the results whose title is unread
Unread(metadatas, read_titles) ==
    SelectSeq([i \in 1..Len(metadatas) |-> [idx |-> i - 1, meta |-> metadatas[i]]],
              LAMBDA c : c.meta.title \notin read_titles)

\* SortKey without the similarity component
SortKeyRankOnly(c, high_rated_books, lookup) == << 0, c.idx >>

\* the sort key (not is_similar_to_high_rated(meta, high_rated_books), idx)
SortKey(c, high_rated_books, lookup) ==
    << IF is_similar_to_high_rated(c.meta, high_rated_books, lookup) THEN 0 ELSE 1,
       c.idx >>

KeyLess(k1, k2) == k1[1] < k2[1] \/ (k1[1] = k2[1] /\ k1[2] < k2[2])

\* a sort that puts the candidates without stored image first
SortedUncachedFirst(cs, high_rated_books, lookup) ==
    SelectSeq(cs, LAMBDA c : c.meta.image_url = NoUrl)
        \o SelectSeq(cs, LAMBDA c : c.meta.image_url # NoUrl)

\* sorted(): stable, ascending by key
RECURSIVE Sorted(_, _, _)
Sorted(cs, high_rated_books, lookup) ==
    IF cs = <<>> THEN <<>>
    ELSE LET c    == cs[Len(cs)]
             rest == Sorted(SubSeq(cs, 1, Len(cs) - 1), high_rated_books, lookup)
             kc   == SortKey(c, high_rated_books, lookup)
             pos  == Cardinality({j \in 1..Len(rest) :
                        ~ KeyLess(kc, SortKey(rest[j], high_rated_books, lookup))})
         IN  SubSeq(rest, 1, pos) \o <<c>> \o SubSeq(rest, pos + 1, Len(rest))

\* Accepted without the comparison against the sentinel
AcceptedSentinel(summary, role) ==
    /\ Truthy(summary)
    /\ Truthy(Strip(summary))
    /\ is_appropriate(summary, role)

\* the condition of the if inside the candidate loop
Accepted(summary, role) ==
    /\ Truthy(summary)
    /\ Truthy(Strip(summary))
    /\ summary # SUMMARY_NOT_FOUND
    /\ is_appropriate(summary, role)

\* FirstAccepted giving up after the first candidate it looks at
FirstAcceptedNoAdvance(candidates, i, role, lookup) ==
    IF i > Len(candidates) THEN 0
    ELSE IF Accepted(lookup[candidates[i].meta.title], role) THEN i
    ELSE 0

\* the candidate loop: position of the candidate that is returned, 0 if the
\* loop runs to its end
RECURSIVE FirstAccepted(_, _, _, _)
FirstAccepted(candidates, i, role, lookup) ==
    IF i > Len(candidates) THEN 0
    ELSE IF Accepted(lookup[candidates[i].meta.title], role) THEN i
    ELSE FirstAccepted(candidates, i + 1, role, lookup)

\* ------------------------------------------------------------------------
\* Requests
\* ------------------------------------------------------------------------
NoResponse    == [kind |-> "none", title |-> "", summary |-> <<>>, image_url |-> NoUrl]
\* {"title": title, "summary": summary, "image_url": image_url}
BookResponse(title, summary, image_url) ==
    [kind |-> "book", title |-> title, summary |-> summary, image_url |-> image_url]
\* {"error": "No suitable book found."}
NoSuitableBook == [kind |-> "error", title |-> "", summary |-> <<>>, image_url |-> NoUrl]
\* HTTPException(401) of verify_token
Unauthorized  == [kind |-> "http401", title |-> "", summary |-> <<>>, image_url |-> NoUrl]
\* an exception that leaves the handler
Raised        == [kind |-> "raised", title |-> "", summary |-> <<>>, image_url |-> NoUrl]

IdleReq ==
    [pc |-> "idle", query |-> NoQuery, role |-> NoRole, language |-> "english",
     tokenOk |-> TRUE, dbUp |-> TRUE, user_books |-> <<>>, raised |-> FALSE,
     read_titles |-> {}, high_rated_books |-> <<>>,
     searched |-> FALSE, search_query |-> NoQuery, metadatas |-> <<>>,
     candidates |-> <<>>, sel |-> 0, response |-> NoResponse]

\* result lists of the similarity search: distinct ids, most similar first
ResultLists(n) ==
    { l \in UNION {[1..k -> Titles] : k \in 0..n} :
        \A i, j \in 1..Len(l) : i # j => l[i] # l[j] }

\* the request bodies, tokens and collaborator outcomes a specification draws
AllRoles == Profiles \cup {NoRole, "Child"}
PipelineInputs ==
    [queries |-> {"", "q"}, roles |-> AllRoles, languages |-> {"english"},
     tokens |-> BOOLEAN, db |-> {TRUE}, search |-> BOOLEAN, gen |-> BOOLEAN]
HistoryInputs ==
    [queries |-> {"q"}, roles |-> {"adult", "technical"}, languages |-> {"english"},
     tokens |-> {TRUE}, db |-> BOOLEAN, search |-> {TRUE}, gen |-> {TRUE}]
NarrowInputs ==
    [queries |-> {"q"}, roles |-> {"adult"}, languages |-> {"english", "romanian"},
     tokens |-> {TRUE}, db |-> {TRUE}, search |-> {TRUE}, gen |-> BOOLEAN]
QueryInputs ==
    [queries |-> {"adventure", "a book"}, roles |-> {"adult", "child"},
     languages |-> {"english"},
     tokens |-> BOOLEAN, db |-> {TRUE}, search |-> {TRUE}, gen |-> BOOLEAN]

\* the characters of the queries of the request bodies
QueryText(query) ==
    CASE query = "adventure" -> <<"a", "d", "v", "e", "n", "t", "u", "r", "e">>
      [] query = "a book"    -> <<"a", " ", "b", "o", "o", "k">>
      [] query = "q"         -> <<"q">>
      [] query = NoQuery     -> NoneStr
      [] OTHER               -> <<>>

\* a request arrives; the handler is suspended in `await request.json()`.
\* Slots are taken lowest first.
Begin(r, in, limit) ==
    /\ req[r].pc = "idle"
    /\ \A q \in Requests : q < r => req[q].pc # "idle"
    /\ started < limit
    /\ \E query \in in.queries, role \in in.roles,
          language \in in.languages, tokenOk \in in.tokens :
          req' = [req EXCEPT ![r] =
                    [IdleReq EXCEPT !.pc = "json", !.query = query, !.role = role,
                                    !.language = language, !.tokenOk = tokenOk]]
    /\ started' = started + 1
    /\ UNCHANGED <<collection, summaries, history, nextUrl, genCalls, writes>>
    /\ UNCHANGED <<filterVars, storeVars, scriptVars>>

\* generate_image_from_summary answering a failure with a URL all the same
generate_image_from_summaryNoNone(genOk) == nextUrl

\* utils/image_generator.py: the URL of the generated image, or None when
\* openai.images.generate raises
generate_image_from_summary(genOk) == IF genOk THEN nextUrl ELSE NoUrl

\* the new metadata with every field but title and image_url dropped
WithImageUrlOnly(meta, image_url) ==
    [meta EXCEPT !.image_url = image_url, !.genre = NoneStr, !.author = NoneStr]

\* {**meta, "image_url": image_url}
WithImageUrl(meta, image_url) == [meta EXCEPT !.image_url = image_url]

\* an update that stores the image_url in every record
collection_updateEvery(title, metadata) ==
    [t \in Titles |-> [collection[t] EXCEPT !.image_url = metadata.image_url]]

\* collection.update(ids=[title], metadatas=[metadata])
collection_update(title, metadata) == [collection EXCEPT ![title] = metadata]

\* Generate without the collection.update
GenerateNoWriteBack(r, locals, genOk) ==
    LET c         == locals.candidates[locals.sel]
        title     == c.meta.title
        image_url == generate_image_from_summary(genOk)
    IN  /\ genCalls' = [genCalls EXCEPT ![title] = @ + 1]
        /\ nextUrl' = IF genOk THEN nextUrl + 1 ELSE nextUrl
        /\ UNCHANGED <<collection, writes>>
        /\ req' = [req EXCEPT ![r] =
                     [locals EXCEPT !.pc = "done",
                                    !.response =
                                        BookResponse(title, summaries[title], image_url)]]

\* lines 193-207: build the prompt, generate the image, write it back when
\* one was produced, and return the book
Generate(r, locals, genOk) ==
    LET c         == locals.candidates[locals.sel]
        title     == c.meta.title
        summary   == summaries[title]
        image_url == generate_image_from_summary(genOk)
    IN  /\ genCalls' = [genCalls EXCEPT ![title] = @ + 1]
        /\ nextUrl' = IF genOk THEN nextUrl + 1 ELSE nextUrl
        /\ IF image_url # NoUrl
           THEN /\ collection' = collection_update(title, WithImageUrl(c.meta, image_url))
                /\ writes' = [writes EXCEPT ![title] = @ + 1]
           ELSE UNCHANGED <<collection, writes>>
        /\ req' = [req EXCEPT ![r] =
                     [locals EXCEPT !.pc = "done",
                                    !.response = BookResponse(title, summary, image_url)]]

\* CacheHit that never sees the stored image_url
CacheHitNever(meta) == FALSE

\* image_url = meta.get("image_url"); `if not image_url` is the cache miss
CacheHit(meta) == meta.image_url # NoUrl

\* lines 136-178: everything recommend() does between reading the body and
\* its first await, or its return when it does not await
Body(r, in) ==
    /\ req[r].pc = "json"
    /\ UNCHANGED <<summaries, history, started, filterVars, storeVars, scriptVars>>
    /\ IF ~ req[r].tokenOk
       THEN /\ req' = [req EXCEPT ![r].pc = "done", ![r].response = Unauthorized]
            /\ UNCHANGED <<collection, nextUrl, genCalls, writes>>
       ELSE \E dbUp \in in.db, searchOk \in in.search,
               results \in ResultLists(MaxResults), genOk \in in.gen :
            LET user_books   == get_user_read_books(dbUp)
                h            == HistoryLoop(user_books, 1, {}, <<>>)
                search_query == IF req[r].query \notin {NoQuery, ""}
                                THEN req[r].query ELSE req[r].role
                metadatas    == [i \in 1..Len(results) |-> collection[results[i]]]
                candidates   == Sorted(Unread(metadatas, h.read_titles),
                                       h.high_rated_books, summaries)
                sel          == FirstAccepted(candidates, 1, req[r].role, summaries)
                afterHistory == [req[r] EXCEPT !.dbUp = dbUp,
                                     !.user_books = user_books, !.raised = h.raised,
                                     !.read_titles = h.read_titles,
                                     !.high_rated_books = h.high_rated_books,
                                     !.search_query = search_query]
                locals       == [afterHistory EXCEPT !.searched = TRUE,
                                     !.metadatas = metadatas,
                                     !.candidates = candidates, !.sel = sel]
            IN  IF ~ searchOk
                THEN /\ req' = [req EXCEPT ![r] =
                                  [afterHistory EXCEPT !.pc = "done", !.response = Raised]]
                     /\ UNCHANGED <<collection, nextUrl, genCalls, writes>>
                ELSE IF sel = 0
                THEN /\ req' = [req EXCEPT ![r] =
                                  [locals EXCEPT !.pc = "done", !.response = NoSuitableBook]]
                     /\ UNCHANGED <<collection, nextUrl, genCalls, writes>>
                ELSE IF CacheHit(candidates[sel].meta)
                THEN /\ req' = [req EXCEPT ![r] =
                                  [locals EXCEPT !.pc = "done",
                                      !.response =
                                          BookResponse(candidates[sel].meta.title,
                                              summaries[candidates[sel].meta.title],
                                              candidates[sel].meta.image_url)]]
                     /\ UNCHANGED <<collection, nextUrl, genCalls, writes>>
                ELSE IF req[r].language = "romanian"
                THEN /\ req' = [req EXCEPT ![r] = [locals EXCEPT !.pc = "translate_title"]]
                     /\ UNCHANGED <<collection, nextUrl, genCalls, writes>>
                ELSE Generate(r, locals, genOk)

\* lines 180-184: the awaited POST /translate for the title returns, or the
\* transport raises
TranslateTitle(r) ==
    /\ req[r].pc = "translate_title"
    /\ \E ok \in BOOLEAN :
          req' = [req EXCEPT ![r] =
                    IF ok THEN [@ EXCEPT !.pc = "translate_summary"]
                    ELSE [@ EXCEPT !.pc = "done", !.response = Raised]]
    /\ UNCHANGED <<collection, summaries, history, started, nextUrl, genCalls, writes>>
    /\ UNCHANGED <<filterVars, storeVars, scriptVars>>

\* lines 185-207: the awaited POST /translate for the summary returns and the
\* handler runs to its return
TranslateSummary(r) ==
    /\ req[r].pc = "translate_summary"
    /\ UNCHANGED <<summaries, history, started, filterVars, storeVars, scriptVars>>
    /\ \E ok \in BOOLEAN, genOk \in BOOLEAN :
          IF ok THEN Generate(r, req[r], genOk)
          ELSE /\ req' = [req EXCEPT ![r].pc = "done", ![r].response = Raised]
               /\ UNCHANGED <<collection, nextUrl, genCalls, writes>>

\* the response is sent and the slot is free for the next request
Reset(r) ==
    /\ req[r].pc = "done"
    /\ req' = [req EXCEPT ![r] = IdleReq]
    /\ UNCHANGED <<collection, summaries, history, started, nextUrl, genCalls, writes>>
    /\ UNCHANGED <<filterVars, storeVars, scriptVars>>

\* ------------------------------------------------------------------------
\* The relational store: auth/service.add_read_book, the /add_read_book
\* endpoint and utils/sync_chromadb_to_oracle.py
\* ------------------------------------------------------------------------
\* number of /add_read_book requests in one behaviour
MaxAdds == 2

\* the rows of table users
Usernames == <<"alice", "bob">>
\* the subjects of valid tokens; carol's account is not in table users
TokenUsers == {"alice", "bob", "carol"}
\* a token that verify_token rejects
NoUser == "<invalid>"
\* the book_title of a request body, Missing when the body has none
BodyTitles == {"T1", "t1", "T2", Missing}
\* data.get("rating")
BodyRatings == {NoRating, IntRating(3), IntRating(5)}

\* LOWER(title) / str.lower() on the titles of this model
TitleLower(t) ==
    CASE t = "T0" -> "t0"
      [] t = "T1" -> "t1"
      [] t = "T2" -> "t2"
      [] t = "T3" -> "t3"
      [] OTHER    -> t

\* position of the first element of seq equal to x, 0 for none: what
\* cur.fetchone() gives for SELECT id FROM table WHERE column = :1
RowId(seq, x) ==
    IF \E i \in 1..Len(seq) : seq[i] = x
    THEN CHOOSE i \in 1..Len(seq) : seq[i] = x /\ \A j \in 1..(i - 1) : seq[j] # x
    ELSE 0

\* the ON condition of the MERGE holds for some row
Matched(rows, user_id, book_id) ==
    \E row \in rows : row.user_id = user_id /\ row.book_id = book_id

\* MERGE that inserts without looking for a matching row
MergeInsertOnly(rows, user_id, book_id, rating, now) ==
    rows \cup {[user_id |-> user_id, book_id |-> book_id,
                rating |-> rating, read_date |-> now]}

\* MERGE INTO user_read_books ON (user_id, book_id): update rating and
\* read_date of the matching rows, insert a row when there is none
Merge(rows, user_id, book_id, rating, now) ==
    LET on(row) == row.user_id = user_id /\ row.book_id = book_id
    IN  IF Matched(rows, user_id, book_id)
        THEN { IF on(row)
               THEN [row EXCEPT !.rating = rating, !.read_date = now]
               ELSE row : row \in rows }
        ELSE rows \cup {[user_id |-> user_id, book_id |-> book_id,
                         rating |-> rating, read_date |-> now]}

\* add_read_book that inserts the title into books when it is not there
add_read_bookCreatesBook(username, book_title, rating, dbUp) ==
    LET user_id == RowId(users, username)
        book_id == RowId(books, book_title)
        same    == [raised |-> TRUE, matched |-> FALSE,
                    books |-> books, user_read_books |-> user_read_books]
    IN  IF ~ dbUp THEN same
        ELSE IF user_id = 0 THEN same
        ELSE IF book_id = 0
        THEN [raised |-> FALSE, matched |-> FALSE, books |-> Append(books, book_title),
              user_read_books |->
                  Merge(user_read_books, user_id, Len(books) + 1, rating, sysdate)]
        ELSE [raised |-> FALSE, matched |-> Matched(user_read_books, user_id, book_id),
              books |-> books,
              user_read_books |->
                  Merge(user_read_books, user_id, book_id, rating, sysdate)]

\* auth.service.add_read_book: whether it raised, whether the MERGE found a
\* matching row, and the tables as committed when it returns or raises
add_read_book(username, book_title, rating, dbUp) ==
    LET user_id == RowId(users, username)
        book_id == RowId(books, book_title)
        same    == [raised |-> TRUE, matched |-> FALSE,
                    books |-> books, user_read_books |-> user_read_books]
    IN  IF ~ dbUp THEN same
        ELSE IF user_id = 0 THEN same
        ELSE IF book_id = 0 THEN same
        ELSE [raised |-> FALSE, matched |-> Matched(user_read_books, user_id, book_id),
              books |-> books,
              user_read_books |->
                  Merge(user_read_books, user_id, book_id, rating, sysdate)]

NoApi == [username |-> NoUser, book_title |-> Missing, rating |-> NoRating,
          dbUp |-> TRUE, status |-> 0, matched |-> FALSE]

\* POST /add_read_book, from verify_token to the response; requests are at
\* least one unit of SYSDATE apart
AddReadBookApi ==
    /\ sysdate <= MaxAdds
    /\ sysdate' = sysdate + 1
    /\ \E username \in TokenUsers \cup {NoUser}, book_title \in BodyTitles,
          rating \in BodyRatings, dbUp \in BOOLEAN :
          LET request == [username |-> username, book_title |-> book_title,
                          rating |-> rating, dbUp |-> dbUp, status |-> 0,
                          matched |-> FALSE]
              out     == add_read_book(username, book_title, rating, dbUp)
          IN  IF username = NoUser
              THEN /\ api' = [request EXCEPT !.status = 401]
                   /\ UNCHANGED <<books, user_read_books, storeCalls>>
              ELSE IF book_title = Missing
              THEN /\ api' = [request EXCEPT !.status = 400]
                   /\ UNCHANGED <<books, user_read_books, storeCalls>>
              ELSE /\ storeCalls' = storeCalls + 1
                   /\ books' = out.books
                   /\ user_read_books' = out.user_read_books
                   /\ api' = [request EXCEPT !.status = IF out.raised THEN 500 ELSE 200,
                                              !.matched = out.matched]
    /\ UNCHANGED <<users, collection, summaries, history, req, started, nextUrl,
                   genCalls, writes, filterVars, scriptVars>>

\* one iteration of the loop of sync_chromadb_to_oracle.py for title t
SyncStep(t) ==
    /\ ~ \E i \in 1..Len(books) : TitleLower(books[i]) = TitleLower(t)
    /\ books' = Append(books, t)
    /\ UNCHANGED <<users, user_read_books, sysdate, storeCalls, api>>
    /\ UNCHANGED <<collection, summaries, history, req, started, nextUrl,
                   genCalls, writes, filterVars, scriptVars>>

\* the store before the first sync and the first request
InitStore ==
    /\ users = Usernames
    /\ books = <<>>
    /\ user_read_books = {}
    /\ sysdate = 1
    /\ storeCalls = 0
    /\ api = NoApi

\* ------------------------------------------------------------------------
\* Accounts: /register and /delete_user with auth/service.insert_user and
\* delete_user
\* ------------------------------------------------------------------------
\* number of /register and /delete_user requests in one behaviour
MaxAccountRequests == 3

\* a row of table users that was deleted; the user_id of the other rows stay
Deleted == "<deleted>"

\* the username of a /register body, Missing when the body has none
RegisterNames == {"alice", "dave", Missing}
\* the username of a /delete_user body, Missing when the body has none
DeleteNames == {"alice", "bob", Missing}

\* auth.service.insert_user: table users as committed when it returns; the
\* failed connect and the rejected second row of a username are printed and
\* the function returns as after an insert
insert_user(username, dbUp) ==
    IF dbUp /\ RowId(users, username) = 0 THEN Append(users, username) ELSE users

\* auth.service.delete_user: table users as committed when it returns
delete_user(username, dbUp) ==
    IF dbUp
    THEN [i \in 1..Len(users) |-> IF users[i] = username THEN Deleted ELSE users[i]]
    ELSE users

NoAcct == [op |-> "none", token |-> NoUser, username |-> Missing, dbUp |-> TRUE,
           status |-> 0, called |-> FALSE, n |-> 0]

\* POST /register; a body without username, email or password raises KeyError
\* while the arguments are built
RegisterApi ==
    /\ acct.n < MaxAccountRequests
    /\ \E username \in RegisterNames, complete \in BOOLEAN, dbUp \in BOOLEAN :
          LET request == [op |-> "register", token |-> NoUser, username |-> username,
                          dbUp |-> dbUp, status |-> 0, called |-> FALSE,
                          n |-> acct.n + 1]
          IN  IF username = Missing \/ ~ complete
              THEN /\ acct' = [request EXCEPT !.status = 400]
                   /\ users' = users
              ELSE /\ acct' = [request EXCEPT !.status = 200, !.called = TRUE]
                   /\ users' = insert_user(username, dbUp)
    /\ UNCHANGED <<books, user_read_books, sysdate, storeCalls, api, embed, cli>>
    /\ UNCHANGED <<collection, summaries, history, req, started, nextUrl,
                   genCalls, writes, filterVars>>

\* DeleteAllowed that lets a body without username through
DeleteAllowedMissing(body_username, username) ==
    body_username = Missing \/ body_username = username

\* the test of /delete_user: data.get("username") != username raises 403
DeleteAllowed(body_username, username) == body_username = username

\* POST /delete_user, from verify_token to the response
DeleteUserApi ==
    /\ acct.n < MaxAccountRequests
    /\ \E token \in TokenUsers \cup {NoUser}, body_username \in DeleteNames,
          dbUp \in BOOLEAN :
          LET request == [op |-> "delete", token |-> token, username |-> body_username,
                          dbUp |-> dbUp, status |-> 0, called |-> FALSE,
                          n |-> acct.n + 1]
          IN  IF token = NoUser
              THEN /\ acct' = [request EXCEPT !.status = 401]
                   /\ users' = users
              ELSE IF ~ DeleteAllowed(body_username, token)
              THEN /\ acct' = [request EXCEPT !.status = 403]
                   /\ users' = users
              ELSE /\ acct' = [request EXCEPT !.status = 200, !.called = TRUE]
                   /\ users' = delete_user(token, dbUp)
    /\ UNCHANGED <<books, user_read_books, sysdate, storeCalls, api, embed, cli>>
    /\ UNCHANGED <<collection, summaries, history, req, started, nextUrl,
                   genCalls, writes, filterVars>>

\* ------------------------------------------------------------------------
\* embeddings/embedding_storing.py
\* ------------------------------------------------------------------------
\* longest input list of one call
MaxBooks == 3
\* calls of embed_and_store_in_batches in one behaviour
MaxEmbedCalls == 2

\* the titles of the input files
EmbedTitles == {"T1", "T2"}

\* the books of the input: book.get("title") and whether book.get("summary")
\* is truthy
EmbedBooks ==
    { [title |-> "T1", summary |-> TRUE], [title |-> "T2", summary |-> TRUE],
      [title |-> "T1", summary |-> FALSE], [title |-> Missing, summary |-> TRUE] }

\* the script is not running; ids are the ids of the Chroma collection,
\* adds the number of times each title was passed to collection.add by the
\* current call
IdleEmbed ==
    [pc |-> "idle", call |-> 0, summaries |-> <<>>, batch_size |-> 1, resume |-> TRUE,
     ids |-> {}, existing_ids |-> {}, i |-> 0, adds |-> [t \in EmbedTitles |-> 0]]

\* the ids of one pass of the for loop over input = summaries, from i up to
\* i + batch_size:
\* a book is skipped when it lacks title or summary, when resume is set and
\* its title is in existing_ids, and when its title is in seen_titles, the
\* titles this pass has already taken
BatchIds(input, i, batch_size, resume, existing_ids) ==
    LET hi      == IF i + batch_size < Len(input) THEN i + batch_size ELSE Len(input)
        Pass(j) == /\ input[j].title # Missing
                   /\ input[j].summary
                   /\ ~ (resume /\ input[j].title \in existing_ids)
        Take(j) == /\ Pass(j)
                   /\ \A k \in (i + 1)..(j - 1) :
                          ~ (Pass(k) /\ input[k].title = input[j].title)
        taken   == SelectSeq([j \in 1..(hi - i) |-> i + j], Take)
    IN  [n \in 1..Len(taken) |-> input[taken[n]].title]

\* embed_and_store_in_batches is called: lines 78-98, up to the first test
\* of the while loop; existing_ids is read here and nowhere else
EmbedStart ==
    /\ embed.pc \in {"idle", "done"}
    /\ embed.call < MaxEmbedCalls
    /\ embed' = [embed EXCEPT
                    !.pc = IF Len(embed.summaries) = 0 THEN "done" ELSE "loop",
                    !.call = @ + 1,
                    !.existing_ids = IF embed.resume THEN embed.ids ELSE {},
                    !.i = 0,
                    !.adds = [t \in EmbedTitles |-> 0]]
    /\ UNCHANGED <<acct, cli, pipelineVars, filterVars, storeVars>>

\* one pass of the while loop, lines 99-142: the batch is collected, the
\* embeddings are requested (openai.embeddings.create may raise, which ends
\* the call), and a batch that is not empty is passed to collection.add
EmbedBatch ==
    /\ embed.pc = "loop"
    /\ LET batch_ids == BatchIds(embed.summaries, embed.i, embed.batch_size,
                                 embed.resume, embed.existing_ids)
           next_i    == embed.i + embed.batch_size
           next_pc   == IF next_i < Len(embed.summaries) THEN "loop" ELSE "done"
       IN  IF batch_ids = <<>>
           THEN embed' = [embed EXCEPT !.i = next_i, !.pc = next_pc]
           ELSE \E embedOk \in BOOLEAN :
                  IF ~ embedOk
                  THEN embed' = [embed EXCEPT !.pc = "raised"]
                  ELSE embed' = [embed EXCEPT
                          !.i = next_i, !.pc = next_pc,
                          !.ids = @ \cup {batch_ids[n] : n \in 1..Len(batch_ids)},
                          !.adds = [t \in EmbedTitles |->
                                      @[t] + Cardinality({n \in 1..Len(batch_ids) :
                                                            batch_ids[n] = t})]]
    /\ UNCHANGED <<acct, cli, pipelineVars, filterVars, storeVars>>

\* ------------------------------------------------------------------------
\* cli/chatbot.py
\* ------------------------------------------------------------------------
\* queries typed at the prompt in one behaviour
MaxQueries == 2
\* the largest top_k the search loop asks for
max_k == 100

\* no query has been typed: the chatbot waits at its prompt
IdleCli ==
    [pc |-> "prompt", queries |-> 0, role |-> NoRole, ranking |-> <<>>,
     found |-> FALSE, top_k |-> 1, searches |-> 0, title |-> Missing,
     message |-> FALSE, displayed |-> FALSE, images |-> 0]

\* STEP 1: the inferred role, else the role typed at the clarification
\* prompt, else adult
CliRole(inferred, typed) ==
    IF inferred \in Profiles THEN inferred
    ELSE IF typed \in Profiles THEN typed
    ELSE "adult"

\* search_books(query, collection, top_k=top_k): the top_k most similar
\* books of the collection, most similar first
SearchBooks(ranking, top_k) ==
    SubSeq(ranking, 1, IF top_k < Len(ranking) THEN top_k ELSE Len(ranking))

\* the test of the for loop with any summary that is not empty taken
CliAcceptedNotEmpty(summary, role) == Truthy(summary)

\* summary and summary.strip() and is_appropriate(summary, role)
CliAccepted(summary, role) ==
    /\ Truthy(summary)
    /\ Truthy(Strip(summary))
    /\ is_appropriate(summary, role)

\* a query is typed: lines 71-108, up to the first test of the while loop
CliAsk ==
    /\ cli.pc = "prompt"
    /\ cli.queries < MaxQueries
    /\ \E ranking \in ResultLists(MaxResults),
          inferred \in {"child", "unknown"}, typed \in {"adult", "anyone"} :
          cli' = [IdleCli EXCEPT !.pc = "loop", !.queries = cli.queries + 1,
                                 !.role = CliRole(inferred, typed),
                                 !.ranking = ranking]
    /\ UNCHANGED <<acct, embed, pipelineVars, filterVars, storeVars>>

\* one pass of the while loop, lines 109-127: the search (which may raise
\* and end the program), the for loop over its results, the widening of
\* top_k and, when the loop ends without a book, the not-found message
CliSearch ==
    /\ cli.pc = "loop"
    /\ ~ cli.found /\ cli.top_k <= max_k
    /\ \E searchOk \in BOOLEAN :
          IF ~ searchOk
          THEN cli' = [cli EXCEPT !.pc = "raised"]
          ELSE LET results == SearchBooks(cli.ranking, cli.top_k)
                   hits    == { idx \in 1..Len(results) :
                                  CliAccepted(summaries[results[idx]], cli.role) }
               IN  IF hits # {}
                   THEN cli' = [cli EXCEPT
                                  !.searches = @ + 1, !.found = TRUE,
                                  !.title = results[CHOOSE i \in hits :
                                                      \A j \in hits : i <= j],
                                  !.pc = "display"]
                   ELSE cli' = [cli EXCEPT
                                  !.searches = @ + 1, !.top_k = @ + 1,
                                  !.message = (cli.top_k + 1 > max_k),
                                  !.pc = IF cli.top_k + 1 > max_k THEN "prompt"
                                         ELSE "loop"]
    /\ UNCHANGED <<acct, embed, pipelineVars, filterVars, storeVars>>

\* STEP 3 and STEP 4, lines 129-146: the book is displayed and an image is
\* asked for; the chatbot returns to its prompt
CliDisplay ==
    /\ cli.pc = "display"
    /\ cli' = [cli EXCEPT !.displayed = TRUE, !.images = @ + 1, !.pc = "prompt"]
    /\ UNCHANGED <<acct, embed, pipelineVars, filterVars, storeVars>>

\* no account request was made, no script is running
InitScriptsIdle ==
    /\ acct = NoAcct
    /\ embed = IdleEmbed
    /\ cli = IdleCli

\* ------------------------------------------------------------------------
\* Specifications
\* ------------------------------------------------------------------------
FixedSummaries ==
    [t \in Titles |-> CASE t = "T1" -> SClean
                        [] t = "T2" -> SMagic
                        [] OTHER    -> SUMMARY_NOT_FOUND]

\* no function of utils/filter.py is being applied on its own
NoArgs == [fn |-> "none"]
NoResult == [done |-> FALSE, value |-> FALSE]
InitFilterIdle == args = NoArgs /\ result = NoResult

InitCommon ==
    /\ collection = InitialCollection
    /\ req = [r \in Requests |-> IdleReq]
    /\ started = 0
    /\ nextUrl = 1
    /\ genCalls = [t \in Titles |-> 0]
    /\ writes = [t \in Titles |-> 0]
    /\ InitFilterIdle
    /\ InitStore
    /\ InitScriptsIdle

\* concurrent and successive requests over a fixed catalog
Init ==
    /\ InitCommon
    /\ summaries = FixedSummaries
    /\ history \in {<<>>, <<BareRecord("T2", IntRating(3))>>}

Next ==
    \E r \in Requests :
        \/ Begin(r, NarrowInputs, MaxRequests)
        \/ Body(r, NarrowInputs)
        \/ TranslateTitle(r)
        \/ TranslateSummary(r)
        \/ Reset(r)

Spec == Init /\ [][Next]_vars

\* successive requests only: the second request starts after the first has
\* returned
NextSequential ==
    \/ Begin(1, NarrowInputs, MaxRequests)
    \/ Body(1, NarrowInputs)
    \/ TranslateTitle(1)
    \/ TranslateSummary(1)
    \/ Reset(1)

SpecSequential == Init /\ [][NextSequential]_vars

\* one request whose query is, or is not, about books
NextQuery ==
    \/ Begin(1, QueryInputs, 1)
    \/ Body(1, QueryInputs)

SpecQuery == Init /\ [][NextQuery]_vars

\* what get_summary_by_title may return for a title
SummaryKinds ==
    {NoneStr, <<>>, SBlank, SUMMARY_NOT_FOUND, SClean, SDeath, SHeavy, SMagic}

\* one request over catalogs of summaries and every role
InitPipeline ==
    /\ InitCommon
    /\ summaries \in {f \in [Titles -> SummaryKinds] :
                        /\ f["T2"] \in {SUMMARY_NOT_FOUND, SClean, SDeath}
                        /\ f["T3"] = SClean}
    /\ history \in {<<>>, <<RichRecord("T3", IntRating(5), summaries)>>}

NextPipeline ==
    \/ Begin(1, PipelineInputs, 1)
    \/ Body(1, PipelineInputs)

SpecPipeline == InitPipeline /\ [][NextPipeline]_vars

\* the records a history can hold for title t, and the record without title
ReadRecords ==
    UNION { { BareRecord(t, NoRating), BareRecord(t, IntRating(3)),
              RichRecord(t, IntRating(4), FixedSummaries),
              BareRecord(t, StrRating) } : t \in Titles \cup {OtherTitle} }
    \cup { BareRecord(Missing, IntRating(5)) }

\* histories of at most n records, at most one record per title
Histories(n) ==
    { h \in UNION {[1..k -> ReadRecords] : k \in 0..n} :
        \A i, j \in 1..Len(h) : i # j => h[i].title # h[j].title }

\* one request over every reading history
InitHistory ==
    /\ InitCommon
    /\ summaries = FixedSummaries
    /\ history \in Histories(MaxHistory)

NextHistory ==
    \/ Begin(1, HistoryInputs, 1)
    \/ Body(1, HistoryInputs)

SpecHistory == InitHistory /\ [][NextHistory]_vars


\* recommend over the histories auth.service.get_user_read_books builds:
\* every row is a dict of title, rating and read_date, the rating NULL or a
\* number
ServiceRecords ==
    { BareRecord(t, rating) :
        t \in Titles \cup {OtherTitle},
        rating \in {NoRating, IntRating(3), IntRating(4), IntRating(5)} }
ServiceHistories(n) ==
    { h \in UNION {[1..k -> ServiceRecords] : k \in 0..n} :
        \A i, j \in 1..Len(h) : i # j => h[i].title # h[j].title }
ServiceInputs ==
    [queries |-> {"q"}, roles |-> {"adult"}, languages |-> {"english"},
     tokens |-> {TRUE}, db |-> {TRUE}, search |-> {TRUE}, gen |-> {TRUE}]

InitService ==
    /\ InitCommon
    /\ summaries = FixedSummaries
    /\ history \in ServiceHistories(MaxHistory)

NextService ==
    \/ Begin(1, ServiceInputs, 1)
    \/ Body(1, ServiceInputs)

SpecService == InitService /\ [][NextService]_vars

\* ------------------------------------------------------------------------
\* The functions of utils/filter.py applied on their own
\* ------------------------------------------------------------------------

\* no request is in flight; the catalog is the fixed one
InitPipelineIdle ==
    /\ collection = InitialCollection
    /\ req = [r \in Requests |-> IdleReq]
    /\ started = 0
    /\ nextUrl = 1
    /\ genCalls = [t \in Titles |-> 0]
    /\ writes = [t \in Titles |-> 0]
    /\ summaries = FixedSummaries
    /\ history = <<>>

\* summaries for is_appropriate: a phrase, or a near miss of one, in several
\* spellings, inside a prefix and a suffix
SummaryPrefixes == { <<>>, <<"E", "s">>, <<"A", " ">> }
SummaryCores ==
    { <<"s", "e", "x">>,
      <<"S", "E", "X">>,
      <<"d", "e", "a", "t", "h">>,
      <<"D", "e", "a", "t", "h">>,
      <<"d", "r", "u", "g", "s">>,
      <<"d", "r", "u", "g">>,
      <<"a", "b", "u", "s", "e">>,
      <<"v", "i", "o", "l", "e", "n", "c", "e">>,
      <<"h", "e", "a", "v", "y", " ", "v", "i", "o", "l", "e", "n", "c", "e">>,
      <<"H", "e", "a", "v", "y", " ", "V", "i", "o", "l", "e", "n", "c", "e">>,
      <<"h", "e", "a", "v", "y", " ", " ", "v", "i", "o", "l", "e", "n", "c", "e">>,
      <<"g", "r", "a", "p", "h", "i", "c", " ", "s", "e", "x">>,
      <<"m", "a", "g", "i", "c">>,
      <<"M", "a", "g", "i", "c">>,
      <<"f", "a", "i", "r", "y", " ", "t", "a", "l", "e">>,
      <<"f", "a", "i", "r", "y", "t", "a", "l", "e">>,
      <<"f", "a", "n", "t", "a", "s", "y">>,
      <<"c", "o", "u", "r", "a", "g", "e">> }
SummarySuffixes == { <<>>, <<"y">>, <<".">> }
AppropriateSummaries ==
    { pre \o core \o suf :
        pre \in SummaryPrefixes, core \in SummaryCores, suf \in SummarySuffixes }

InitAppropriate ==
    /\ InitPipelineIdle
    /\ InitStore
    /\ InitScriptsIdle
    /\ args \in { [fn |-> "is_appropriate", summary |-> s, profile |-> p] :
                     s \in AppropriateSummaries, p \in AllRoles }
    /\ result = NoResult

ApplyIsAppropriate ==
    /\ args.fn = "is_appropriate"
    /\ ~ result.done
    /\ result' = [done |-> TRUE, value |-> is_appropriate(args.summary, args.profile)]
    /\ UNCHANGED <<args, pipelineVars, storeVars, scriptVars>>

NextAppropriate == ApplyIsAppropriate

SpecAppropriate == InitAppropriate /\ [][NextAppropriate]_vars

\* summaries for is_similar_to_high_rated: twenty-five keywords, and five and
\* four of them
SManyWords ==
    <<"a", "a", "a", "a", " ", "b", "b", "b", "b", " ", "c", "c", "c", "c",
      " ", "d", "d", "d", "d", " ", "e", "e", "e", "e", " ", "f", "f", "f",
      "f", " ", "g", "g", "g", "g", " ", "h", "h", "h", "h", " ", "i", "i",
      "i", "i", " ", "j", "j", "j", "j", " ", "k", "k", "k", "k", " ", "l",
      "l", "l", "l", " ", "m", "m", "m", "m", " ", "n", "n", "n", "n", " ",
      "o", "o", "o", "o", " ", "p", "p", "p", "p", " ", "q", "q", "q", "q",
      " ", "r", "r", "r", "r", " ", "s", "s", "s", "s", " ", "t", "t", "t",
      "t", " ", "u", "u", "u", "u", " ", "v", "v", "v", "v", " ", "w", "w",
      "w", "w", " ", "x", "x", "x", "x", " ", "y", "y", "y", "y">>
SFiveWords ==
    <<"a", "a", "a", "a", " ", "b", "b", "b", "b", " ", "c", "c", "c", "c",
      " ", "d", "d", "d", "d", " ", "e", "e", "e", "e">>
SFourWords ==
    <<"a", "a", "a", "a", " ", "b", "b", "b", "b", " ", "c", "c", "c", "c",
      " ", "d", "d", "d", "d">>
\* five keywords
SSchool == <<"M", "a", "g", "i", "c", " ", "s", "c", "h", "o", "o", "l", " ", "a", "d", "v", "e", "n", "t", "u", "r", "e", " ", "f", "r", "i", "e", "n", "d", "s", "h", "i", "p", " ", "c", "o", "u", "r", "a", "g", "e">>
\* two of the five, and one of the five
STwoShared == <<"M", "a", "g", "i", "c", " ", "S", "c", "h", "o", "o", "l">>
SOneShared == <<"m", "a", "g", "i", "c", " ", "t", "a", "l", "e">>
\* no word of four letters, and stopwords only
SShortWords == <<"c", "a", "t", " ", "d", "o", "g", " ", "b", "a", "t", " ", "r", "a", "t">>
SStopwords == <<"w", "i", "t", "h", " ", "f", "r", "o", "m", " ", "t", "h", "a", "t", " ", "t", "h", "i", "s">>

\* the candidates: genre, author and summary as meta.get gives them (NoneStr
\* for an absent key), with and without a title to look the summary up by
CandidateMetas ==
    { [title |-> "T1", genre |-> g, author |-> a, summary |-> s] :
        g \in {NoneStr, <<>>, <<"F", "a">>, <<"f", "a">>},
        a \in {NoneStr, <<>>, <<"X">>},
        s \in {NoneStr, <<>>, SSchool, SShortWords, SStopwords} }
    \cup { [title |-> Missing, genre |-> g, author |-> a, summary |-> NoneStr] :
             g \in {NoneStr, <<>>, <<"F", "a">>, <<"f", "a">>},
             a \in {NoneStr, <<>>, <<"X">>} }
    \cup { [title |-> "T1", genre |-> NoneStr, author |-> NoneStr, summary |-> SManyWords] }

\* the high-rated projections api_server.recommend builds
HighRatedBooks ==
    { [title |-> "T2", genre |-> g, author |-> a, summary |-> s] :
        g \in {NoneStr, <<>>, <<"f", "a">>, <<"s", "f">>},
        a \in {NoneStr, <<"x">>, <<"y">>},
        s \in {NoneStr, SOneShared, STwoShared, SShortWords, SFiveWords, SFourWords} }

\* a high-rated book that resembles no candidate
UnlikeBook ==
    [title |-> "T3", genre |-> <<"s", "f">>, author |-> <<"y">>, summary |-> SShortWords]

\* high-rated lists of at most n books; the books before the last are unlike
\* every candidate
HighRatedLists(n) ==
    {<<>>} \cup
    { [i \in 1..k |-> IF i = k THEN b ELSE UnlikeBook] :
        k \in 1..n, b \in HighRatedBooks }

InitSimilar ==
    /\ InitPipelineIdle
    /\ InitStore
    /\ InitScriptsIdle
    /\ args \in { [fn |-> "is_similar_to_high_rated", meta |-> m, high_rated_books |-> h] :
                     m \in CandidateMetas, h \in HighRatedLists(MaxHistory) }
    /\ result = NoResult

ApplyIsSimilar ==
    /\ args.fn = "is_similar_to_high_rated"
    /\ ~ result.done
    /\ result' = [done |-> TRUE,
                  value |-> is_similar_to_high_rated(args.meta, args.high_rated_books,
                                                     summaries)]
    /\ UNCHANGED <<args, pipelineVars, storeVars, scriptVars>>

NextSimilar == ApplyIsSimilar

SpecSimilar == InitSimilar /\ [][NextSimilar]_vars

\* is_similar_to_high_rated applied to candidates without a summary of their
\* own, with a summary lookup that raises, returns None or returns a text
InitFallback ==
    /\ collection = InitialCollection
    /\ req = [r \in Requests |-> IdleReq]
    /\ started = 0
    /\ nextUrl = 1
    /\ genCalls = [t \in Titles |-> 0]
    /\ writes = [t \in Titles |-> 0]
    /\ history = <<>>
    /\ \E s \in {LookupRaises, NoneStr, SSchool} : summaries = [FixedSummaries EXCEPT !["T1"] = s]
    /\ InitStore
    /\ InitScriptsIdle
    /\ args \in { [fn |-> "is_similar_to_high_rated", meta |-> m, high_rated_books |-> h] :
                     m \in { c \in CandidateMetas : ~ Truthy(c.summary) },
                     h \in HighRatedLists(MaxHistory) }
    /\ result = NoResult

NextFallback == ApplyIsSimilar

SpecFallback == InitFallback /\ [][NextFallback]_vars

\* texts for sanitize_for_image_prompt: a run of letters as long as the
\* limit or shorter, then a word inside a prefix and a suffix
PromptCores ==
    { <<"s", "e", "a">>,
      <<"d", "a", "r", "n">>,
      <<"D", "a", "r", "n">>,
      <<"H", "e", "c", "k">>,
      <<"\\", "b", "d", "a", "r", "n", "\\", "b">>,
      <<"D", "e", "a", "t", "h">>,
      <<"d", "e", "'", "a", "t", "h">>,
      <<"s", "*", "E", "x">>,
      <<"d", "r", "u", "g", "s">> }
PromptTexts ==
    { [i \in 1..n |-> "x"] \o pre \o core \o suf :
        n \in {0, 288, 300}, pre \in { <<>>, <<"a", " ">> }, core \in PromptCores,
        suf \in { <<>>, <<" ", "i", "t">>, <<"!">> } }

\* the lists data/bad_words.json may hold
BadWordLists ==
    { {}, {<<"d", "a", "r", "n">>}, {<<"d", "a", "r", "n">>, <<"h", "e", "c", "k">>} }

InitSanitize ==
    /\ InitPipelineIdle
    /\ InitStore
    /\ InitScriptsIdle
    /\ args \in { [fn |-> "sanitize_for_image_prompt", text |-> t, bad_words |-> b] :
                     t \in PromptTexts, b \in BadWordLists }
    /\ result = NoResult

ApplySanitize ==
    /\ args.fn = "sanitize_for_image_prompt"
    /\ ~ result.done
    /\ result' = [done |-> TRUE,
                  value |-> sanitize_for_image_prompt(args.text, args.bad_words)]
    /\ UNCHANGED <<args, pipelineVars, storeVars, scriptVars>>

NextSanitize == ApplySanitize

SpecSanitize == InitSanitize /\ [][NextSanitize]_vars

\* /add_read_book requests and runs of the sync script over the fixed
\* vector store
InitReadBooks ==
    /\ InitPipelineIdle
    /\ InitFilterIdle
    /\ InitStore
    /\ InitScriptsIdle

NextReadBooks ==
    \/ AddReadBookApi
    \/ \E t \in Titles : SyncStep(t)

SpecReadBooks == InitReadBooks /\ [][NextReadBooks]_vars

\* /register and /delete_user requests; no user has read records
InitAccounts ==
    /\ InitPipelineIdle
    /\ InitFilterIdle
    /\ InitStore
    /\ InitScriptsIdle

NextAccounts ==
    \/ RegisterApi
    \/ DeleteUserApi

SpecAccounts == InitAccounts /\ [][NextAccounts]_vars

\* calls of embed_and_store_in_batches over every input list of at most
\* MaxBooks books, with batches of one and of two books, on a collection
\* that is empty or holds T1
InitEmbed ==
    /\ InitPipelineIdle
    /\ InitFilterIdle
    /\ InitStore
    /\ acct = NoAcct
    /\ cli = IdleCli
    /\ embed \in { [IdleEmbed EXCEPT !.summaries = s, !.batch_size = b,
                                     !.resume = r, !.ids = ids] :
                     s \in UNION { [1..k -> EmbedBooks] : k \in 0..MaxBooks }, b \in {1, 2}, r \in BOOLEAN,
                     ids \in {{}, {"T1"}} }

NextEmbed ==
    \/ EmbedStart
    \/ EmbedBatch

SpecEmbed == InitEmbed /\ [][NextEmbed]_vars

\* queries at the prompt of the command-line chatbot over catalogs of
\* summaries; the while loop is never left waiting
InitCli ==
    /\ collection = InitialCollection
    /\ req = [r \in Requests |-> IdleReq]
    /\ started = 0
    /\ nextUrl = 1
    /\ genCalls = [t \in Titles |-> 0]
    /\ writes = [t \in Titles |-> 0]
    /\ history = <<>>
    /\ summaries \in { f \in [Titles -> SummaryKinds] :
                          /\ f["T1"] \in {SClean, SDeath, SBlank}
                          /\ f["T2"] \in {SDeath, SUMMARY_NOT_FOUND}
                          /\ f["T3"] = SBlank }
    /\ InitFilterIdle
    /\ InitStore
    /\ InitScriptsIdle

NextCli ==
    \/ CliAsk
    \/ CliSearch
    \/ CliDisplay

SpecCli == InitCli /\ [][NextCli]_vars

FairSpecCli == SpecCli /\ WF_vars(CliSearch) /\ WF_vars(CliDisplay)

\* ------------------------------------------------------------------------
\* Properties
\* ------------------------------------------------------------------------
\* the summary checks in the words of the specification
NonEmpty(s) == s # NoneStr /\ Len(s) > 0
WhitespaceOnly(s) == \A i \in 1..Len(s) : s[i] \in Whitespace
ValidSummary(s) == NonEmpty(s) /\ ~ WhitespaceOnly(s) /\ s # SUMMARY_NOT_FOUND
Passes(c, role) ==
    ValidSummary(summaries[c.meta.title]) /\ is_appropriate(summaries[c.meta.title], role)

\* C1: the returned book is the first candidate, in filtered order, whose
\* summary is non-empty, not whitespace-only, not the sentinel and appropriate
\* for the request's role; no earlier candidate passes these checks.
C1_FirstAcceptableWins ==
    \A r \in Requests :
        req[r].response.kind = "book" =>
            \E k \in 1..Len(req[r].candidates) :
                /\ req[r].candidates[k].meta.title = req[r].response.title
                /\ req[r].response.summary = summaries[req[r].response.title]
                /\ Passes(req[r].candidates[k], req[r].role)
                /\ \A j \in 1..(k - 1) : ~ Passes(req[r].candidates[j], req[r].role)

\* a book was returned that is the third candidate, under a restricting role
C1_Witness ==
    \E r \in Requests :
        /\ req[r].response.kind = "book"
        /\ req[r].role \in {"child", "teen", "technical"}
        /\ Len(req[r].candidates) = 3
        /\ req[r].candidates[3].meta.title = req[r].response.title

TitlesOf(records) == {records[i].title : i \in 1..Len(records)}

\* C2: the returned title is never in the read_titles of the request; when
\* the history was delivered and read completely, it is no title of the
\* user's history, whatever the ratings.
C2_NeverRecommendsRead ==
    \A r \in Requests :
        req[r].response.kind = "book" =>
            /\ req[r].response.title \notin req[r].read_titles
            /\ (req[r].dbUp /\ ~ req[r].raised) =>
                   req[r].response.title \notin TitlesOf(history)

\* a book was returned although the most similar result was a read book that
\* the user rated highly
C2_Witness ==
    \E r \in Requests :
        /\ req[r].response.kind = "book"
        /\ Len(req[r].metadatas) >= 2
        /\ req[r].metadatas[1].title \in req[r].read_titles
        /\ \E i \in 1..Len(req[r].high_rated_books) :
               req[r].high_rated_books[i].title = req[r].metadatas[1].title

\* C3: the filtered sequence is a permutation of exactly the unread search
\* results, every similar candidate precedes every non-similar one, and inside
\* each of the two groups the search-rank order is kept.
C3_StablePartition ==
    \A r \in Requests :
        req[r].searched =>
            LET cs     == req[r].candidates
                ms     == req[r].metadatas
                unread == { [idx |-> i - 1, meta |-> ms[i]] :
                              i \in {k \in 1..Len(ms) : ms[k].title \notin req[r].read_titles} }
                sim(c) == is_similar_to_high_rated(c.meta, req[r].high_rated_books, summaries)
            IN  /\ {cs[i] : i \in 1..Len(cs)} = unread
                /\ Len(cs) = Cardinality(unread)
                /\ \A i, j \in 1..Len(cs) :
                       i < j => /\ sim(cs[j]) => sim(cs[i])
                                /\ (sim(cs[i]) <=> sim(cs[j])) => cs[i].idx < cs[j].idx

\* the sort moved a similar candidate in front of a better-ranked one, and
\* one group has two members
C3_Witness ==
    \E r \in Requests :
        /\ req[r].searched
        /\ Len(req[r].candidates) = 3
        /\ \E i, j \in 1..3 : i < j /\ req[r].candidates[i].idx > req[r].candidates[j].idx

C5_ClarificationOnEmptyQuery ==
    \A r \in Requests :
        (req[r].pc = "done" /\ req[r].tokenOk
            /\ req[r].query \in {"", NoQuery} /\ req[r].role = NoRole) =>
                /\ req[r].response.kind = "clarification"
                /\ ~ req[r].searched

\* is_appropriate was evaluated for some candidate of request r: the summary
\* checks before it in the condition held for a candidate the loop reached
Screened(r) ==
    /\ req[r].searched
    /\ \E j \in 1..Len(req[r].candidates) :
           /\ req[r].sel = 0 \/ j <= req[r].sel
           /\ ValidSummary(summaries[req[r].candidates[j].meta.title])

\* C6: whenever a candidate is screened by the Appropriateness Filter, the
\* profile passed to it is one of child, teen, adult, technical.
C6_ScreenedUnderKnownProfile ==
    \A r \in Requests : Screened(r) => req[r].role \in Profiles

\* C7 as stated: over two successive calls the image generator is invoked at
\* most once for a book.
C7_AtMostOneInvocation ==
    started <= 2 => \A t \in Titles : genCalls[t] <= 1

\* C7 amended: a call that finds the book's image_url stored invokes no
\* generation, changes nothing and returns the stored image_url; an image is
\* stored at most once per title, and a returned image is the stored one.
C7_CachedImageReused ==
    [][ /\ \A r \in Requests, t \in Titles :
              ( /\ req[r].pc # "done" /\ req'[r].pc = "done"
                /\ req'[r].response.kind = "book"
                /\ req'[r].response.title = t
                /\ collection[t].image_url # NoUrl ) =>
                    /\ genCalls' = genCalls
                    /\ collection' = collection
                    /\ req'[r].response.image_url = collection[t].image_url
        /\ \A t \in Titles : writes'[t] <= 1
        /\ \A r \in Requests :
              (req'[r].response.kind = "book" /\ req'[r].response.image_url # NoUrl) =>
                  collection'[req'[r].response.title].image_url
                      = req'[r].response.image_url ]_vars

\* the second of two successive calls returned a book whose image it found
\* stored by the first
C7_Witness ==
    /\ started = 2
    /\ req[1].response.kind = "book"
    /\ CacheHit(req[1].candidates[req[1].sel].meta)
    /\ genCalls[req[1].response.title] = 1

\* C8 as stated: image_url is written at most once per title, and once a
\* title's metadata holds an image_url no request generates or overwrites it.
C8_WrittenOncePerTitle ==
    [][ \A t \in Titles :
            /\ writes'[t] <= 1
            /\ collection[t].image_url # NoUrl =>
                   /\ collection'[t] = collection[t]
                   /\ genCalls'[t] = genCalls[t] ]_vars

\* C8 amended: every generation and every write-back for a title is the one
\* step of one returning request whose own search result for that title
\* carried no image_url; the write stores the image_url that request returns.
C8_WrittenOnlyAfterOwnMiss ==
    [][ \A t \in Titles :
            (genCalls'[t] # genCalls[t] \/ writes'[t] # writes[t]
                \/ collection'[t] # collection[t]) =>
                \E r \in Requests :
                    /\ req[r].pc # "done" /\ req'[r].pc = "done"
                    /\ req'[r].response.kind = "book"
                    /\ req'[r].response.title = t
                    /\ req'[r].candidates[req'[r].sel].meta.image_url = NoUrl
                    /\ genCalls'[t] = genCalls[t] + 1
                    /\ writes'[t] <= writes[t] + 1
                    /\ collection'[t] # collection[t] =>
                           /\ writes'[t] = writes[t] + 1
                           /\ req'[r].response.image_url # NoUrl
                           /\ collection'[t].image_url = req'[r].response.image_url ]_vars

\* two requests that both missed the cache have both written the same title
C8_Witness ==
    \E t \in Titles : writes[t] = 2 /\ genCalls[t] = 2

\* C9: when the history store cannot be reached, the request fails.
C9_HistoryFailurePropagates ==
    \A r \in Requests :
        (req[r].pc = "done" /\ req[r].tokenOk /\ ~ req[r].dbUp) =>
            req[r].response.kind = "raised"

\* C10: when reading the history raises, the filter runs with read_titles and
\* high_rated_books both empty.
C10_EmptyHistoryAfterError ==
    \A r \in Requests :
        (req[r].searched /\ req[r].raised) =>
            req[r].read_titles = {} /\ req[r].high_rated_books = <<>>

\* request r returns book t in this step
ReturnsBook(r, t) ==
    /\ req[r].pc # "done" /\ req'[r].pc = "done"
    /\ req'[r].response.kind = "book"
    /\ req'[r].response.title = t

\* C11: a request whose image generation fails still returns the selected
\* book's title and summary, with no image_url, and writes nothing back; a
\* request that selects a book with no stored image_url invokes the generator,
\* so the image is attempted again after a failure.
C11_FailedGenerationNotStored ==
    [][ \A r \in Requests, t \in Titles :
            /\ ( /\ ReturnsBook(r, t)
                 /\ genCalls'[t] = genCalls[t] + 1
                 /\ nextUrl' = nextUrl ) =>
                     /\ req'[r].response.summary = summaries[t]
                     /\ req'[r].response.image_url = NoUrl
                     /\ collection' = collection
                     /\ writes' = writes
            /\ (ReturnsBook(r, t) /\ collection[t].image_url = NoUrl) =>
                     genCalls'[t] = genCalls[t] + 1 ]_vars

\* the second of two successive requests generated and stored the image of
\* the book whose generation had failed in the first
C11_Witness ==
    /\ started = 2
    /\ req[1].response.kind = "book"
    /\ genCalls[req[1].response.title] = 2
    /\ writes[req[1].response.title] = 1
    /\ req[1].response.image_url # NoUrl
    /\ collection[req[1].response.title].image_url = req[1].response.image_url

\* phrase w occurs in text s at position i when letter case is ignored
OccursAt(s, w, i) ==
    /\ i + Len(w) - 1 <= Len(s)
    /\ \A k \in 1..Len(w) : LowerChar(s[i + k - 1]) = w[k]

\* C12: for every summary and every profile of child, teen, adult, technical,
\* is_appropriate is false exactly when the lower-cased summary contains a
\* banned phrase of the profile's table as a substring; for adult it is
\* always true.
C12_AppropriateIffNoBannedPhrase ==
    (result.done /\ args.fn = "is_appropriate" /\ args.profile \in Profiles) =>
        /\ result.value = FALSE <=>
               \E w \in EXCLUSION_KEYWORDS[args.profile] :
                   \E i \in 1..Len(args.summary) : OccursAt(args.summary, w, i)
        /\ args.profile = "adult" => result.value = TRUE

\* a summary was rejected for a banned phrase that it spells with capitals
\* inside a longer word
C12_Witness ==
    /\ result.done /\ args.fn = "is_appropriate"
    /\ args.profile = "child"
    /\ args.summary = <<"E", "s", "S", "E", "X", "y">>
    /\ result.value = FALSE

\* the applied function is is_similar_to_high_rated and it has returned
SimilarReturned == result.done /\ args.fn = "is_similar_to_high_rated"

\* C13: is_similar_to_high_rated returns false for every candidate when the
\* high-rated list is empty, whatever the candidate's genre, author, summary
\* and title.
C13_EmptyHighRatedNeverSimilar ==
    (SimilarReturned /\ args.high_rated_books = <<>>) => result.value = FALSE

\* the function returned for a candidate with genre, author and five
\* keywords, and an empty high-rated list
C13_Witness ==
    /\ SimilarReturned
    /\ args.high_rated_books = <<>>
    /\ args.meta.genre = <<"F", "a">>
    /\ args.meta.author = <<"X">>
    /\ args.meta.summary = SSchool

\* two values are equal when letter case is ignored
EqIgnoreCase(a, b) ==
    Len(a) = Len(b) /\ \A k \in 1..Len(a) : LowerChar(a[k]) = LowerChar(b[k])

\* genre or author of candidate and high-rated book are both there, both
\* non-empty, and equal ignoring case
FieldMatch(x, y) == NonEmpty(x) /\ NonEmpty(y) /\ EqIgnoreCase(x, y)
GenreOrAuthorMatch(meta, b) ==
    FieldMatch(meta.genre, b.genre) \/ FieldMatch(meta.author, b.author)

\* both keyword sets are non-empty and they share five keywords, or more
\* than 0.2 of the candidate's
ThemeOverlap(meta, b) ==
    LET cand_kw == keywords(CandidateSummary(meta, summaries))
        b_kw    == keywords(IF b.summary = NoneStr THEN <<>> ELSE Lower(b.summary))
        shared  == Cardinality(cand_kw \cap b_kw)
    IN  /\ cand_kw # {}
        /\ b_kw # {}
        /\ shared >= 5 \/ 10 * shared > 2 * Cardinality(cand_kw)

\* C14: when no high-rated book matches the candidate by genre or author, the
\* candidate is similar exactly when, for some high-rated book, both keyword
\* sets are non-empty and the intersection has at least 5 elements or more
\* than 0.2 of the size of the candidate's keyword set.
C14_ThemeOverlapThreshold ==
    LET hrb == args.high_rated_books
    IN  ( /\ SimilarReturned
          /\ \A i \in 1..Len(hrb) : ~ GenreOrAuthorMatch(args.meta, hrb[i]) ) =>
            (result.value <=> \E i \in 1..Len(hrb) : ThemeOverlap(args.meta, hrb[i]))

\* a candidate of twenty-five keywords was found similar to a book that
\* shares five of them: a ratio of exactly 0.2
C14_Witness ==
    /\ SimilarReturned
    /\ args.meta.summary = SManyWords
    /\ Len(args.high_rated_books) = 1
    /\ args.high_rated_books[1].summary = SFiveWords
    /\ args.high_rated_books[1].genre = NoneStr
    /\ result.value = TRUE

\* C15: the candidate is similar as soon as some high-rated book has a
\* non-empty genre equal, ignoring case, to the candidate's non-empty genre,
\* or likewise an author; without theme overlap, an empty or missing genre or
\* author on either side never makes the candidate similar.
C15_GenreAuthorIgnoreCase ==
    LET hrb == args.high_rated_books
    IN  SimilarReturned =>
            /\ (\E i \in 1..Len(hrb) : GenreOrAuthorMatch(args.meta, hrb[i])) =>
                   result.value = TRUE
            /\ ( /\ result.value = TRUE
                 /\ \A i \in 1..Len(hrb) : ~ ThemeOverlap(args.meta, hrb[i]) ) =>
                   \E i \in 1..Len(hrb) : GenreOrAuthorMatch(args.meta, hrb[i])

\* a candidate of genre "Fa" was found similar to the second high-rated book,
\* of genre "fa", with which it shares no keyword
C15_Witness ==
    /\ SimilarReturned
    /\ args.meta.genre = <<"F", "a">>
    /\ args.meta.author = NoneStr
    /\ Len(args.high_rated_books) = 2
    /\ args.high_rated_books[2].genre = <<"f", "a">>
    /\ ~ ThemeOverlap(args.meta, args.high_rated_books[2])
    /\ result.value = TRUE

\* this step is a call of auth.service.add_read_book
StoreCalled == storeCalls' = storeCalls + 1

\* the rows of the table apart from those of user u and book b
OtherRows(rows, u, b) == {row \in rows : ~ (row.user_id = u /\ row.book_id = b)}

\* C16: the table holds at most one read record per user and book; a
\* successful call leaves exactly one record of its pair, carrying the rating
\* supplied, and every other record as it was; a step that is no successful
\* call leaves every record as it was.
C16_OneRecordPerPairLatestRating ==
    [][ /\ \A r1, r2 \in user_read_books' :
              (r1.user_id = r2.user_id /\ r1.book_id = r2.book_id) => r1 = r2
        /\ IF StoreCalled /\ api'.status = 200
           THEN LET u == RowId(users, api'.username)
                    b == RowId(books, api'.book_title)
                IN  /\ \E row \in user_read_books' :
                          /\ row.user_id = u /\ row.book_id = b
                          /\ row.rating = api'.rating
                    /\ OtherRows(user_read_books', u, b) = OtherRows(user_read_books, u, b)
           ELSE user_read_books' = user_read_books ]_vars

\* a successful call changed the rating of the record that the user already
\* had for the book
C16_Witness ==
    /\ api.status = 200
    /\ api.matched
    /\ Cardinality(user_read_books) = 1
    /\ \E row \in user_read_books :
           /\ users[row.user_id] = api.username
           /\ books[row.book_id] = api.book_title
           /\ row.rating = api.rating
           /\ row.read_date = sysdate - 1

C18_TitleLookupIgnoresCase ==
    [][ ( /\ StoreCalled
          /\ api'.dbUp
          /\ RowId(users, api'.username) # 0
          /\ \E i \in 1..Len(books) : TitleLower(books[i]) = TitleLower(api'.book_title) ) =>
              /\ api'.status = 200
              /\ \E row \in user_read_books' :
                     /\ row.user_id = RowId(users, api'.username)
                     /\ TitleLower(books[row.book_id]) = TitleLower(api'.book_title) ]_vars

\* C19: a request whose query is not book-related ends with an error payload
\* and no book.
C19_UnrelatedQueryRejected ==
    \A r \in Requests :
        ( /\ req[r].pc = "done"
          /\ req[r].tokenOk
          /\ ~ is_book_related(QueryText(req[r].query)) ) =>
              req[r].response.kind = "error"

\* this step is a POST /add_read_book with a valid token
AddRequested == sysdate' # sysdate /\ api'.username # NoUser

\* the titles of the metadata of the vector store
MetadataTitles == {collection[t].title : t \in Titles}

\* C20: a request whose body has no book title, or a title that no metadata
\* record of the vector store carries, is answered with 400 and does not call
\* add_read_book of the history store.
C20_UnknownTitleRejectedBeforeStore ==
    [][ ( /\ AddRequested
          /\ api'.book_title = Missing \/ api'.book_title \notin MetadataTitles ) =>
              /\ api'.status = 400
              /\ storeCalls' = storeCalls ]_vars

\* this step is a POST /register
RegisterRequested == acct'.n = acct.n + 1 /\ acct'.op = "register"

\* C21: /register answers with success only when the user's row was stored by
\* the request; a request that stores no row is answered with 400.
C21_RegisterSuccessMeansStored ==
    [][ RegisterRequested =>
            /\ acct'.status = 200 => users' = Append(users, acct'.username)
            /\ users' = users => acct'.status = 400 ]_vars

\* this step is a POST /delete_user
DeleteRequested == acct'.n = acct.n + 1 /\ acct'.op = "delete"

\* C22: a row of table users is deleted only by a /delete_user request whose
\* body names the user of its verified token, and it is that user's row; a
\* request with a valid token whose body names another user, or none, is
\* answered with 403 and does not call delete_user.
C22_DeleteOnlyOwnAccount ==
    [][ /\ \A i \in 1..Len(users) :
              (users[i] # Deleted /\ users'[i] = Deleted) =>
                  /\ DeleteRequested
                  /\ acct'.token = users[i]
                  /\ acct'.username = users[i]
        /\ ( /\ DeleteRequested
             /\ acct'.token # NoUser
             /\ acct'.username # acct'.token ) =>
                  /\ acct'.status = 403
                  /\ ~ acct'.called
                  /\ users' = users ]_vars

\* alice's row was deleted by her own request, which was not the first
\* account request
C22_Witness ==
    /\ acct.op = "delete"
    /\ acct.n >= 2
    /\ acct.status = 200
    /\ acct.token = "alice"
    /\ users = <<Deleted, "bob">>

\* the titles of the search results of request r, in rank order
ResultTitles(r) == [i \in 1..Len(req[r].metadatas) |-> req[r].metadatas[i].title]

\* the title the candidate loop of request r selected, "" for none
SelectedTitle(r) ==
    IF req[r].sel = 0 THEN "" ELSE req[r].candidates[req[r].sel].meta.title

C24_LastWriterWinsOtherFieldsKept ==
    [][ \A t \in Titles :
            /\ [collection'[t] EXCEPT !.image_url = NoUrl] = InitialCollection[t]
            /\ writes'[t] # writes[t] =>
                   /\ \E r \in Requests :
                          /\ ReturnsBook(r, t)
                          /\ req'[r].response.image_url # NoUrl
                          /\ collection'[t].image_url = req'[r].response.image_url
                   /\ \A u \in Titles \ {t} : collection'[u] = collection[u] ]_vars

\* two concurrent requests both generated and stored an image for the same
\* title; the request that began first wrote last and its URL is the stored one
C24_Witness ==
    \E t \in Titles :
        /\ writes[t] = 2
        /\ req[1].response.kind = "book" /\ req[1].response.title = t
        /\ req[2].response.kind = "book" /\ req[2].response.title = t
        /\ req[2].response.image_url = 1
        /\ req[1].response.image_url = 2
        /\ collection[t].image_url = 2

\* C25: no step of /recommend changes the reading history or the relational
\* tables, and a metadata record changes only in the step in which a request
\* returns that book, and only in its image_url, which becomes the one the
\* request returns.
C25_OnlyImageUrlOfReturnedBook ==
    [][ /\ history' = history
        /\ user_read_books' = user_read_books
        /\ users' = users /\ books' = books
        /\ \A t \in Titles :
              collection'[t] # collection[t] =>
                  \E r \in Requests :
                      /\ ReturnsBook(r, t)
                      /\ collection'[t] =
                             [collection[t] EXCEPT !.image_url = req'[r].response.image_url] ]_vars

\* a request of a user with a read record returned a book and stored its image
C25_Witness ==
    \E r \in Requests :
        /\ history # <<>>
        /\ req[r].response.kind = "book"
        /\ req[r].response.image_url # NoUrl
        /\ writes[req[r].response.title] = 1
        /\ collection[req[r].response.title].image_url = req[r].response.image_url
        /\ \A t \in Titles \ {req[r].response.title} : collection[t] = InitialCollection[t]

\* the candidate has no summary of its own and the lookup by its title raised
LookupFailed ==
    /\ ~ Truthy(MetaSummary(args.meta))
    /\ args.meta.title # Missing
    /\ summaries[args.meta.title] = LookupRaises

\* C26: when the candidate has no summary and the summary lookup by its
\* title raises, is_similar_to_high_rated still returns a boolean, and it
\* returns true exactly when some high-rated book matches the candidate by
\* genre or by author: no theme overlap is counted, whatever the summaries of
\* the high-rated books.
C26_LookupErrorLeavesGenreAuthorOnly ==
    LET hrb == args.high_rated_books
    IN  (SimilarReturned /\ LookupFailed) =>
            /\ result.value \in BOOLEAN
            /\ result.value <=> \E i \in 1..Len(hrb) : GenreOrAuthorMatch(args.meta, hrb[i])

\* the lookup raised for a candidate without summary, genre match or author
\* match, and the candidate was found not similar to a high-rated book that
\* has a summary with keywords
C26_Witness ==
    /\ SimilarReturned
    /\ LookupFailed
    /\ Len(args.high_rated_books) = 1
    /\ args.high_rated_books[1].summary = STwoShared
    /\ args.meta.genre = <<"F", "a">>
    /\ args.high_rated_books[1].genre = <<"s", "f">>
    /\ result.value = FALSE

SanitizeReturned == result.done /\ args.fn = "sanitize_for_image_prompt"

\* word w stands in text between two characters that are no word characters
ContainsWord(text, w) ==
    \E i \in 1..(Len(text) - Len(w) + 1) :
        /\ SubSeq(text, i, i + Len(w) - 1) = w
        /\ (i = 1 \/ text[i - 1] \notin WordChars)
        /\ (i + Len(w) - 1 = Len(text) \/ text[i + Len(w)] \notin WordChars)

\* the output has no explicit term in any letter case
NoExplicitTerm(text) ==
    \A k \in 1..Len(EXPLICIT_TERMS) : ~ Contains(Lower(text), EXPLICIT_TERMS[k])

\* C27: the text sanitize_for_image_prompt returns contains no word of the
\* configured bad-words list and none of the terms sex, violence, abuse,
\* drugs, death, in any letter case, and has at most 300 characters.
C27_SanitizedPromptMasked ==
    SanitizeReturned =>
        /\ \A bad \in args.bad_words : ~ ContainsWord(Lower(result.value), Lower(bad))
        /\ NoExplicitTerm(result.value)
        /\ Len(result.value) <= 300

\* the titles of the search results that no record of the history names, in
\* search-rank order
UnreadResultTitles(r) ==
    SelectSeq(ResultTitles(r),
              LAMBDA t : \A i \in 1..Len(history) : history[i].title # t)

\* C28: with the records get_user_read_books returns, every high-rated
\* projection of /recommend has no genre, no author and no summary, no
\* search result is similar to the high-rated books, and the candidates are
\* the unread search results in search-rank order, whatever the ratings.
C28_ServiceHistoryKeepsSearchRank ==
    req[1].searched =>
        /\ \A i \in 1..Len(req[1].high_rated_books) :
              /\ req[1].high_rated_books[i].genre = NoneStr
              /\ req[1].high_rated_books[i].author = NoneStr
              /\ req[1].high_rated_books[i].summary = NoneStr
        /\ \A i \in 1..Len(req[1].metadatas) :
              ~ is_similar_to_high_rated(req[1].metadatas[i], req[1].high_rated_books,
                                         summaries)
        /\ [i \in 1..Len(req[1].candidates) |-> req[1].candidates[i].meta.title]
               = UnreadResultTitles(1)

\* the user rated T0 with 5 and T2 with 3; the search returned T3, T2 and
\* T1, and the candidates are T3 before T1 although T1 has the genre of T0
C28_Witness ==
    /\ req[1].searched
    /\ history = <<BareRecord("T0", IntRating(5)), BareRecord("T2", IntRating(3))>>
    /\ Len(req[1].high_rated_books) = 1
    /\ ResultTitles(1) = <<"T3", "T2", "T1">>
    /\ Len(req[1].candidates) = 2
    /\ req[1].candidates[1].meta.title = "T3"
    /\ req[1].candidates[2].meta.title = "T1"

\* C29: in a call of embed_and_store_in_batches with resume=True, each title
\* is passed to collection.add at most once, and not at all when its id was
\* in the collection when the call began; a second call on the same input
\* passes no title to collection.add.
C29_EachTitleAddedAtMostOnce ==
    (embed.resume /\ embed.call >= 1) =>
        \A t \in EmbedTitles :
            /\ embed.adds[t] <= 1
            /\ t \in embed.existing_ids => embed.adds[t] = 0
            /\ embed.call = 2 => embed.adds[t] = 0

\* the search result at rank idx has a non-blank summary that is appropriate
\* for the role
CliSuitable(idx) ==
    LET summary == summaries[cli.ranking[idx]]
    IN  /\ NonEmpty(summary)
        /\ ~ WhitespaceOnly(summary)
        /\ is_appropriate(summary, cli.role)

\* what holds in every state of the search loop and after it
CliLoopBounded ==
    /\ cli.top_k \in 1..(max_k + 1)
    /\ cli.searches <= max_k
    /\ cli.searches \in {cli.top_k - 1, cli.top_k}
    /\ cli.found =>
          \E idx \in 1..Len(cli.ranking) :
              /\ idx <= cli.top_k
              /\ cli.ranking[idx] = cli.title
              /\ CliSuitable(idx)
              /\ \A j \in 1..(idx - 1) : ~ CliSuitable(j)
    /\ cli.message =>
          /\ cli.searches = max_k
          /\ ~ cli.found /\ ~ cli.displayed /\ cli.images = 0
          /\ cli.pc = "prompt"
          /\ \A idx \in 1..Len(cli.ranking) : ~ CliSuitable(idx)
    /\ (cli.displayed \/ cli.images > 0) => cli.found

\* C30: the search loop of the CLI ends for every query; it searches with
\* top_k = 1, 2, ... up to 100 at most, stops at the first search result in
\* rank order whose summary is non-blank and appropriate for the role, and
\* after 100 searches without such a result prints the not-found message and
\* is back at the prompt with no book displayed and no image generated.
C30_SearchLoopTerminates ==
    /\ [] CliLoopBounded
    /\ (cli.pc = "loop") ~> (cli.pc # "loop")
    /\ (cli.pc = "loop" /\ \A idx \in 1..Len(cli.ranking) : ~ CliSuitable(idx))
           ~> (cli.message \/ cli.pc = "raised")

\* the second query of the session ran one hundred searches over three
\* results, none with a suitable summary, and ended with the message
C30_Witness ==
    /\ cli.queries = 2
    /\ cli.message
    /\ cli.searches = 100
    /\ Len(cli.ranking) = 3
    /\ cli.role = "child"

====
